---- MODULE Spec2Model ----
(***************************************************************************)
(* The step pipeline of docker-qgis/process_projectfile.py:                *)
(* process_projectfile builds a list of Step descriptors, runs them in     *)
(* order against the registry arg_values, and emits one feedback document  *)
(* from its finally block.                                                 *)
(***************************************************************************)
EXTENDS Integers, Sequences, FiniteSets, TLC

\* ------------------------------------------------------------------ bounds

\* Longest pipeline explored.
MaxSteps == 3

\* ------------------------------------------------------------ Python values

\* A Python value: an atom (tup = FALSE, one item) or a tuple of atoms.
S(a) == [tup |-> FALSE, items |-> <<a>>]
T(s) == [tup |-> TRUE, items |-> s]

PyNone == S("None")

\* The names the pipeline binds values to, in the order sort_keys puts them.
NameOrder == <<"layers_summary", "project", "project_filename", "thumbnail_filename">>

\* An empty dict.
EmptyMap == [n \in {} |-> PyNone]

\* d[k] = v on a dict: insert or overwrite.
DictSet(d, k, v) == [n \in (DOMAIN d) \cup {k} |-> IF n = k THEN v ELSE d[n]]

RECURSIVE Concat(_)
Concat(ss) == IF ss = <<>> THEN <<>> ELSE Head(ss) \o Concat(Tail(ss))

SeqMap(Op(_), s) == [k \in 1..Len(s) |-> Op(s[k])]

Range(s) == {s[k] : k \in 1..Len(s)}

\* --------------------------------------------------------- domain errors

\* The domain-error classes and the fields their message templates name.
TemplateFields ==
    [ ProjectFileNotFoundException |-> {"project_filename"},
      InvalidFileExtensionException |-> {"project_filename", "extension"},
      InvalidXmlFileException |-> {"project_filename", "xml_error"},
      InvalidQgisFileException |-> {"project_filename", "error"},
      InvalidLayersException |-> {"project_filename"},
      FailedThumbnailGenerationException |-> {"reason"} ]

NoExc == [kind |-> "none", cls |-> "", tb |-> <<>>]

\* An exception in flight: kind "domain" is the qfieldcloud BaseException
\* family, kind "fault" is anything else.
DomainExc(cls, tb) == [kind |-> "domain", cls |-> cls, tb |-> tb]
Fault(cls, tb) == [kind |-> "fault", cls |-> cls, tb |-> tb]

\* BaseException(**fields) of class cls, raised with traceback tb: the
\* message is the class template % fields, which is a KeyError when the
\* template names a field the raise site did not supply.
RaiseDomain(cls, fields, tb) ==
    IF TemplateFields[cls] \subseteq fields
    THEN DomainExc(cls, tb)
    ELSE Fault("KeyError", tb)

\* The message templates of the domain-error classes.
Message ==
    [ ProjectFileNotFoundException |-> "Project file \"%(project_filename)s\" does not exist",
      InvalidFileExtensionException |-> "Project file \"%(project_filename)s\" has unknown file extension \"%(extension)s\"",
      InvalidXmlFileException |-> "Project file \"%(project_filename)s\" is an invalid XML document:\n%(xml_error)s",
      InvalidQgisFileException |-> "Project file \"%(project_filename)s\" is invalid QGIS file:\n%(error)s",
      InvalidLayersException |-> "Project file \"%(project_filename)s\" contains invalid layers",
      FailedThumbnailGenerationException |-> "Failed to generate project thumbnail:\n%(reason)s" ]

\* str(err): the formatted message of a domain error.
Str(exc) == IF exc.cls \in DOMAIN Message THEN Message[exc.cls] ELSE exc.cls

\* -------------------------------------------------------- step descriptors

\* Step(name, arg_names, method, return_names=[], output_names=[],
\* public_returns=[]): the descriptor's declared names.
Step(name, arg_names, return_names, output_names, public_returns) ==
    [ name |-> name, arg_names |-> arg_names, return_names |-> return_names,
      output_names |-> output_names, public_returns |-> public_returns ]

\* Mutant: Opening Check keeps the project it loaded to itself.
ConcreteStepsProjectPrivate ==
    << Step("Project Validity Check", <<"project_filename">>, <<>>, <<>>, <<>>),
       Step("Opening Check", <<"project_filename">>, <<"project">>, <<>>, <<>>),
       Step("Layer Validity Check", <<"project">>, <<"layers_summary">>,
            <<"layers_summary">>, <<>>),
       Step("Generate Thumbnail Image", <<"project", "thumbnail_filename">>,
            <<>>, <<>>, <<>>) >>

\* The four steps process_projectfile declares, in declared order.
ConcreteSteps ==
    << Step("Project Validity Check", <<"project_filename">>, <<>>, <<>>, <<>>),
       Step("Opening Check", <<"project_filename">>, <<"project">>, <<>>, <<"project">>),
       Step("Layer Validity Check", <<"project">>, <<"layers_summary">>,
            <<"layers_summary">>, <<>>),
       Step("Generate Thumbnail Image", <<"project", "thumbnail_filename">>,
            <<>>, <<>>, <<>>) >>

\* Further descriptors the executor loop is run on: a step with two return
\* names, a step that replaces a seeded name, and two descriptors whose
\* output_names / public_returns are not among their return_names.
ExtraSteps ==
    << Step("Reopen", <<"project_filename">>, <<"project", "layers_summary">>,
            <<"layers_summary">>, <<"project">>),
       Step("Resolve", <<"project_filename">>, <<"project_filename">>,
            <<>>, <<"project_filename">>),
       Step("Bad Output", <<"project_filename">>, <<"project">>,
            <<"layers_summary">>, <<>>),
       Step("Bad Public", <<"project_filename">>, <<"layers_summary">>,
            <<>>, <<"project">>) >>

Catalogue == Range(ConcreteSteps) \cup Range(ExtraSteps)

\* The pipelines explored: 1..MaxSteps distinct descriptors in any order.
Pipelines ==
    UNION { { p \in [1..n -> Catalogue] :
                \A a, b \in 1..n : a # b => p[a].name # p[b].name } :
            n \in 1..MaxSteps }

\* Mutant: the constructor stores the names and checks nothing.
StepUnchecked(st) == TRUE

\* The place of a descriptor in the catalogue.
CatalogueOrder == ConcreteSteps \o ExtraSteps

Place(st) == CHOOSE k \in 1..Len(CatalogueOrder) : CatalogueOrder[k] = st

\* The pipelines that keep the catalogue's order.
OrderedPipelines ==
    { p \in Pipelines : \A a, b \in 1..Len(p) : a < b => Place(p[a]) < Place(p[b]) }

\* The Step constructor's check of a descriptor: output_names and
\* public_returns are subsets of return_names.
StepWellFormed(st) ==
    /\ Range(st.output_names) \subseteq Range(st.return_names)
    /\ Range(st.public_returns) \subseteq Range(st.return_names)

\* ------------------------------------------------------------------ state

VARIABLES
    steps,              \* the declared Step descriptors
    feedback_filename,  \* "None" or the path given by the caller
    pc,                 \* where process_projectfile is
    i,                  \* index of the step the for loop is at
    arg_values,         \* the registry: name -> value
    stage,              \* step.stage of every step
    outputs,            \* step.outputs of every step
    args,               \* the resolved arguments of the step being invoked
    result,             \* the value the method returned
    exc,                \* the exception in flight, or NoExc
    feedback,           \* the feedback dict
    file,               \* the file at feedback_filename
    stdout,             \* what was printed
    calls,              \* every method invocation so far: step, args, outcome
    caught,             \* how often the except clause has run
    emitted,            \* how many complete documents were written or printed
    prev,               \* what the previous run of the same call did, if any
    as_main,            \* the module runs as a script (__name__ == "__main__")
    render              \* generate_thumbnail's render job, slots and event loop

\* What a run is given and never changes, and the inside of
\* generate_thumbnail, which no statement of process_projectfile touches.
inputs == << steps, feedback_filename, prev, as_main, render >>

vars == << inputs, pc, i, arg_values, stage, outputs, args,
           result, exc, feedback, file, stdout, calls, caught, emitted >>

\* The two arguments every run is started with.
InitialArgs ==
    [ n \in {"project_filename", "thumbnail_filename"} |->
        IF n = "project_filename" THEN S("project.qgs") ELSE S("thumbnail.png") ]

NoFile == [exists |-> FALSE, content |-> <<>>]

\* No earlier run.
NoPrev == [ran |-> FALSE, calls |-> <<>>, file |-> NoFile, stdout |-> <<>>]

\* generate_thumbnail has not been entered.
NoRender ==
    [ at |-> "none", slots |-> <<>>, job |-> "none", done_at |-> "none",
      posted |-> FALSE, pending |-> <<>>, ran |-> <<>>, saved |-> "no",
      existed |-> FALSE, exists |-> FALSE, quit |-> FALSE ]

\* process_projectfile is entered: nothing is built yet.
Entered ==
    /\ pc = "construct"
    /\ i = 0
    /\ arg_values = EmptyMap
    /\ stage = <<>>
    /\ outputs = <<>>
    /\ args = <<>>
    /\ result = PyNone
    /\ exc = NoExc
    /\ feedback = EmptyMap
    /\ file = NoFile
    /\ stdout = <<>>
    /\ calls = <<>>
    /\ caught = 0
    /\ emitted = 0
    /\ prev = NoPrev
    /\ render = NoRender

\* The executor loop on any of the pipelines, called from another module.
Init ==
    /\ steps \in Pipelines
    /\ feedback_filename \in {"None", "feedback.json"}
    /\ as_main = FALSE
    /\ Entered

N == Len(steps)

\* Mutant: feedback starts with an "error" entry that is filled in later.
EmptyFeedbackWithError == DictSet(EmptyMap, "error", "")

\* feedback = {}
EmptyFeedback == EmptyMap

\* --------------------------------------------------------------- executor

\* feedback = {}, arg_values = {...}, steps = [Step(...), ...]: a descriptor
\* the Step constructor rejects raises before the try block is entered.
Construct ==
    /\ pc = "construct"
    /\ IF \A k \in 1..N : StepWellFormed(steps[k])
       THEN /\ pc' = "loop"
            /\ i' = 1
            /\ arg_values' = InitialArgs
            /\ stage' = [k \in 1..N |-> "NOT_STARTED"]
            /\ outputs' = [k \in 1..N |-> EmptyMap]
            /\ exc' = NoExc
       ELSE /\ pc' = "raised"
            /\ exc' = Fault("ValueError", <<"process_projectfile", "Step">>)
            /\ UNCHANGED << i, arg_values, stage, outputs >>
    /\ feedback' = EmptyFeedback
    /\ UNCHANGED << inputs, args, result, file, stdout, calls, caught, emitted >>

\* logger_context entered: the stage the step gets.
EnterStage == "STARTED"

\* logger_context left normally: the stage the step gets.
ExitStage == "SUCCEEDED"

\* for step in steps: with logger_context(step):
\*     args = [arg_values[arg_name] for arg_name in step.arg_names]
EnterStep ==
    /\ pc = "loop"
    /\ i <= N
    /\ stage' = [stage EXCEPT ![i] = EnterStage]
    /\ IF Range(steps[i].arg_names) \subseteq DOMAIN arg_values
       THEN /\ args' = [k \in 1..Len(steps[i].arg_names) |->
                           arg_values[steps[i].arg_names[k]]]
            /\ pc' = "call"
            /\ exc' = exc
       ELSE /\ args' = <<>>
            /\ pc' = "unwind"
            /\ exc' = Fault("KeyError", <<"process_projectfile">>)
    /\ UNCHANGED << inputs, i, arg_values, outputs, result,
                    feedback, file, stdout, calls, caught, emitted >>

\* The for loop is exhausted: the try block ends normally.
LoopEnd ==
    /\ pc = "loop"
    /\ i > N
    /\ pc' = "finally"
    /\ UNCHANGED << inputs, i, arg_values, stage, outputs,
                    args, result, exc, feedback, file, stdout, calls, caught,
                    emitted >>

\* ---------------------------------------------------------- step methods

\* The values a method may return, by the number of return names its step
\* declares: None, atoms, and tuples of fewer, as many and more items than
\* there are return names. All of them are values json can serialize.
ReturnChoices(st) ==
    CASE Len(st.return_names) = 0 -> { PyNone }
      [] Len(st.return_names) = 1 ->
             { S("a"), S("b"), PyNone, T(<<"a", "b">>) }
      [] OTHER ->
             { T(<<"a", "b">>), T(<<"b", "a">>), T(<<"a">>),
               T(<<"a", "b", "a">>), PyNone }

\* The domain errors a method of the generic pipeline raises.
RaisedClasses == { "ProjectFileNotFoundException", "InvalidLayersException" }

\* An outcome of a method: cond names the failure condition the method
\* detected, if it detected one.
Returned(v) == [kind |-> "return", val |-> v, cls |-> "", cond |-> ""]
Raised(e, cond) == [kind |-> e.kind, val |-> PyNone, cls |-> e.cls, cond |-> cond]

\* What step k's method does when invoked: it returns a value, raises a
\* domain error, or raises something else.
Outcomes(k) ==
    { Returned(v) : v \in ReturnChoices(steps[k]) }
    \cup { Raised(DomainExc(c, <<>>), "") : c \in RaisedClasses }
    \cup { Raised(Fault("RuntimeError", <<>>), "") }

\* A method is a function of its arguments: invoked again in a later run
\* with the arguments of the earlier run, it does what it did then.
Deterministic(k, out) ==
    \A c \in 1..Len(prev.calls) :
        (prev.calls[c].step = k /\ prev.calls[c].args = args)
            => out = prev.calls[c].out

\* The effect of step.method(*args) having had outcome out.
Invoked(out) ==
    /\ calls' = Append(calls, [step |-> i, args |-> args, out |-> out])
    /\ IF out.kind = "return"
       THEN /\ result' = out.val
            /\ pc' = "bind"
            /\ exc' = exc
       ELSE /\ result' = result
            /\ pc' = "unwind"
            /\ exc' = [kind |-> out.kind, cls |-> out.cls,
                       tb |-> <<"process_projectfile", steps[i].name>>]
    /\ UNCHANGED << inputs, i, arg_values, stage, outputs, args, feedback,
                    file, stdout, caught, emitted >>

\* return_values = step.method(*args)
Invoke ==
    /\ pc = "call"
    /\ \E out \in Outcomes(i) :
          /\ Deterministic(i, out)
          /\ Invoked(out)

\* -------------------------------------------- the four methods of the file

\* Most layers a project is given.
MaxLayers == 2

\* raise cls(**fields) in a method that detected the failure condition cond.
RaiseIn(cls, fields, cond) == Raised(RaiseDomain(cls, fields, <<>>), cond)

\* check_valid_project_file(project_filename), on a file that exists or
\* not, has this suffix, and parses as XML or not.
check_valid_project_file(exists, suffix, xml_ok) ==
    IF ~exists
    THEN RaiseIn("ProjectFileNotFoundException", {"project_filename"},
                 "project file missing")
    ELSE IF suffix = ".qgs"
    THEN IF xml_ok THEN Returned(PyNone)
         ELSE RaiseIn("InvalidXmlFileException", {"project_filename", "xml_error"},
                      "invalid XML")
    ELSE IF suffix # ".qgz"
    THEN RaiseIn("InvalidFileExtensionException", {"project_filename", "extension"},
                 "unknown extension")
    ELSE Returned(PyNone)

\* load_project_file(project_filename), with project.read succeeding or not.
load_project_file(read_ok) ==
    IF ~read_ok
    THEN RaiseIn("InvalidXmlFileException", {"project_filename", "error"},
                 "project read failure")
    ELSE Returned(S("QgsProject"))

\* The layers of a project: each is valid or not and has a data provider
\* or (an invalid layer only) none.
LayerKinds ==
    { [is_valid |-> TRUE, provider |-> TRUE],
      [is_valid |-> FALSE, provider |-> TRUE],
      [is_valid |-> FALSE, provider |-> FALSE] }

LayerLists == UNION { [1..n -> LayerKinds] : n \in 0..MaxLayers }

\* check_layer_validity(project) on a project with these layers: building
\* layer_data reads layer.dataProvider().uri() of every layer, which is an
\* AttributeError on a layer without a data provider.
check_layer_validity(layers) ==
    IF \E k \in 1..Len(layers) : ~layers[k].provider
    THEN Raised(Fault("AttributeError", <<>>), "invalid layer")
    ELSE IF \E k \in 1..Len(layers) : ~layers[k].is_valid
    THEN RaiseIn("InvalidLayersException", {"layers_summary"}, "invalid layer")
    ELSE Returned(T([k \in 1..Len(layers) |-> "valid layer"]))

\* Evaluating the name project_filename inside generate_thumbnail, which
\* has no such parameter or local: the module global of that name exists
\* only when the module runs as a script.
GlobalProjectFilenameDefined == as_main

\* raise cls(project_filename=project_filename, ...) inside generate_thumbnail.
RaiseWithGlobal(cls, fields, cond) ==
    IF GlobalProjectFilenameDefined
    THEN RaiseIn(cls, fields, cond)
    ELSE Raised(Fault("NameError", <<>>), cond)

\* generate_thumbnail(project, thumbnail_filename): the project file opens
\* or not, setContent reports an error or not, a file is at the thumbnail
\* path beforehand or not, and saving the rendered image works or not.
generate_thumbnail(file_opens, content_error, existed, save_ok) ==
    IF file_opens /\ content_error
    THEN RaiseWithGlobal("InvalidXmlFileException", {"project_filename", "error"},
                         "invalid XML")
    ELSE IF ~(existed \/ save_ok)
    THEN RaiseWithGlobal("FailedThumbnailGenerationException",
                         {"project_filename", "reason"}, "thumbnail file absent")
    ELSE Returned(PyNone)

\* return_values = step.method(*args) in the pipeline of the file.
InvokeConcrete ==
    /\ pc = "call"
    /\ \/ /\ steps[i].name = "Project Validity Check"
          /\ \E exists \in BOOLEAN, suffix \in {".qgs", ".qgz", ".txt"}, xml_ok \in BOOLEAN :
                Invoked(check_valid_project_file(exists, suffix, xml_ok))
       \/ /\ steps[i].name = "Opening Check"
          /\ \E read_ok \in BOOLEAN : Invoked(load_project_file(read_ok))
       \/ /\ steps[i].name = "Layer Validity Check"
          /\ \E layers \in LayerLists : Invoked(check_layer_validity(layers))
       \/ /\ steps[i].name = "Generate Thumbnail Image"
          /\ \E file_opens, content_error, existed, save_ok \in BOOLEAN :
                Invoked(generate_thumbnail(file_opens, content_error, existed, save_ok))

\* ------------------------------------------------------- return binding

\* return_values if len(step.return_names) > 1 else (return_values,):
\* the values zip pairs with the return names; iter is FALSE when zip is
\* handed a value it cannot iterate over.
ReturnValues(st, rv) ==
    IF Len(st.return_names) > 1
    THEN IF rv.tup
         THEN [iter |-> TRUE, vals |-> [k \in 1..Len(rv.items) |-> S(rv.items[k])]]
         ELSE [iter |-> FALSE, vals |-> <<>>]
    ELSE [iter |-> TRUE, vals |-> <<rv>>]

Min(a, b) == IF a <= b THEN a ELSE b

\* for name, value in zip(step.return_names, return_values):
\*     return_map[name] = value
ReturnMap(st, vals) ==
    LET m == Min(Len(st.return_names), Len(vals))
    IN  [ n \in {st.return_names[k] : k \in 1..m} |->
            vals[CHOOSE k \in 1..m :
                    /\ st.return_names[k] = n
                    /\ \A l \in 1..m : st.return_names[l] = n => l <= k] ]

\* for name in names: dst[name] = src[name], stopping at the first name
\* src does not hold (a KeyError), with what was copied before it kept.
RECURSIVE CopyNames(_, _, _)
CopyNames(names, src, dst) ==
    IF names = <<>>
    THEN [map |-> dst, ok |-> TRUE]
    ELSE IF Head(names) \notin DOMAIN src
         THEN [map |-> dst, ok |-> FALSE]
         ELSE CopyNames(Tail(names), src, DictSet(dst, Head(names), src[Head(names)]))

\* for output_name in step.output_names:
\*     step.outputs[output_name] = return_map[output_name]
RecordOutputs(st, rm, outs) == CopyNames(st.output_names, rm, outs)

\* Mutant: a name the registry already holds keeps its value.
PromoteKeepExisting(st, rm, reg) ==
    LET r == CopyNames(st.public_returns, rm, reg)
    IN  [ map |-> [n \in DOMAIN r.map |-> IF n \in DOMAIN reg THEN reg[n] ELSE r.map[n]],
          ok |-> r.ok ]

\* for return_name in step.public_returns:
\*     arg_values[return_name] = return_map[return_name]
Promote(st, rm, reg) == CopyNames(st.public_returns, rm, reg)

\* Mutant: the results are distributed after the with block, so the stage
\* is already SUCCEEDED when binding fails.
BindAfterContext ==
    /\ pc = "bind"
    /\ LET st == steps[i]
           rvs == ReturnValues(st, result)
           rm == ReturnMap(st, rvs.vals)
           o == RecordOutputs(st, rm, outputs[i])
           a == Promote(st, rm, arg_values)
       IN  /\ stage' = [stage EXCEPT ![i] = ExitStage]
           /\ IF rvs.iter /\ o.ok /\ a.ok
              THEN /\ outputs' = [outputs EXCEPT ![i] = o.map]
                   /\ arg_values' = a.map
                   /\ i' = i + 1
                   /\ pc' = "loop"
                   /\ exc' = exc
              ELSE /\ exc' = Fault(IF rvs.iter THEN "KeyError" ELSE "TypeError",
                                   <<"process_projectfile">>)
                   /\ pc' = "unwind"
                   /\ outputs' = [outputs EXCEPT ![i] = IF rvs.iter THEN o.map ELSE @]
                   /\ arg_values' = IF rvs.iter /\ o.ok THEN a.map ELSE arg_values
                   /\ i' = i
    /\ UNCHANGED << inputs, args, result, feedback, file, stdout, calls,
                    caught, emitted >>

\* The rest of the with block after the method returned, the exit of
\* logger_context and the advance of the for loop.
Bind ==
    /\ pc = "bind"
    /\ LET st == steps[i]
           rvs == ReturnValues(st, result)
           rm == ReturnMap(st, rvs.vals)
           o == RecordOutputs(st, rm, outputs[i])
           a == Promote(st, rm, arg_values)
       IN  IF ~rvs.iter
           THEN /\ exc' = Fault("TypeError", <<"process_projectfile">>)
                /\ pc' = "unwind"
                /\ UNCHANGED << outputs, arg_values, stage, i >>
           ELSE IF ~o.ok
           THEN /\ exc' = Fault("KeyError", <<"process_projectfile">>)
                /\ pc' = "unwind"
                /\ outputs' = [outputs EXCEPT ![i] = o.map]
                /\ UNCHANGED << arg_values, stage, i >>
           ELSE IF ~a.ok
           THEN /\ exc' = Fault("KeyError", <<"process_projectfile">>)
                /\ pc' = "unwind"
                /\ outputs' = [outputs EXCEPT ![i] = o.map]
                /\ arg_values' = a.map
                /\ UNCHANGED << stage, i >>
           ELSE /\ outputs' = [outputs EXCEPT ![i] = o.map]
                /\ arg_values' = a.map
                /\ stage' = [stage EXCEPT ![i] = ExitStage]
                /\ i' = i + 1
                /\ pc' = "loop"
                /\ exc' = exc
    /\ UNCHANGED << inputs, args, result, feedback, file, stdout, calls,
                    caught, emitted >>

\* ------------------------------------------------------- except, finally

\* Mutant: the clause names Python's own BaseException and takes everything.
CatchesAll(e) == TRUE

\* except BaseException, with BaseException the class imported from
\* qfieldcloud.qgis.utils: the clause takes the domain errors only.
Catches(e) == e.kind = "domain"

\* traceback.format_tb(tb): one string per frame.
FormatTb(tb) == [k \in 1..Len(tb) |-> [line |-> "  File ..., in", fn |-> tb[k]]]

\* Mutant: the error is caught inside the loop, which goes on with the
\* next step.
HandleAndContinue ==
    /\ pc = "unwind"
    /\ IF Catches(exc)
       THEN /\ feedback' = DictSet(DictSet(feedback, "error", Str(exc)),
                                   "error_stack", FormatTb(exc.tb))
            /\ exc' = NoExc
            /\ caught' = caught + 1
            /\ i' = i + 1
            /\ pc' = "loop"
       ELSE /\ pc' = "finally"
            /\ UNCHANGED << feedback, exc, caught, i >>
    /\ UNCHANGED << inputs, arg_values, stage, outputs, args, result, file,
                    stdout, calls, emitted >>

\* Mutant: the handler files the fields of the error under the outputs of
\* the step that raised it.
HandleRecordsDetails ==
    /\ pc = "unwind"
    /\ IF Catches(exc)
       THEN /\ feedback' = DictSet(DictSet(feedback, "error", Str(exc)),
                                   "error_stack", FormatTb(exc.tb))
            /\ exc' = NoExc
            /\ caught' = caught + 1
            /\ outputs' = [outputs EXCEPT ![i] = DictSet(@, "layers_summary", S("a"))]
       ELSE UNCHANGED << feedback, exc, caught, outputs >>
    /\ pc' = "finally"
    /\ UNCHANGED << inputs, i, arg_values, stage, args, result, file,
                    stdout, calls, emitted >>

\* An exception left the try block: the except clause takes it or not.
Handle ==
    /\ pc = "unwind"
    /\ IF Catches(exc)
       THEN /\ feedback' = DictSet(DictSet(feedback, "error", Str(exc)),
                                   "error_stack", FormatTb(exc.tb))
            /\ exc' = NoExc
            /\ caught' = caught + 1
       ELSE UNCHANGED << feedback, exc, caught >>
    /\ pc' = "finally"
    /\ UNCHANGED << inputs, i, arg_values, stage, outputs, args, result, file,
                    stdout, calls, emitted >>

\* Mutant: only the steps the loop got to are listed.
StepRecordsReached ==
    [k \in 1..Min(i, N) |->
        [name |-> steps[k].name, stage |-> stage[k], outputs |-> outputs[k]]]

\* feedback["steps"] = [{"name": ..., "stage": ..., "outputs": ...} for step in steps]
StepRecords ==
    [k \in 1..N |-> [name |-> steps[k].name, stage |-> stage[k], outputs |-> outputs[k]]]

Finally ==
    /\ pc = "finally"
    /\ feedback' = DictSet(feedback, "steps", StepRecords)
    /\ pc' = "emit"
    /\ UNCHANGED << inputs, i, arg_values, stage, outputs, args, result, exc,
                    file, stdout, calls, caught, emitted >>

\* ------------------------------------------------------------ json output

Punct(c) == [t |-> "punct", v |-> c]
Key(k) == [t |-> "key", v |-> k]
JStr(x) == [t |-> "string", v |-> x]

\* The place in the output where the encoder raises TypeError.
NotSerializable == [t |-> "TypeError", v |-> "Object is not JSON serializable"]

\* The JSON of an atom: None is null, "obj" is an object json cannot encode.
JsonAtom(a) ==
    CASE a = "None" -> <<[t |-> "null", v |-> "null"]>>
      [] a = "obj" -> <<NotSerializable>>
      [] OTHER -> <<JStr(a)>>

\* The JSON of a value: a tuple is written as an array.
JsonValue(v) ==
    IF v.tup
    THEN <<Punct("[")>> \o Concat([k \in 1..Len(v.items) |-> JsonAtom(v.items[k])])
         \o <<Punct("]")>>
    ELSE JsonAtom(v.items[1])

\* sort_keys=True: the keys of a dict in sorted order.
SortedKeys(d, order) == SelectSeq(order, LAMBDA k : k \in DOMAIN d)

\* A dict of values, keys sorted.
JsonOutputs(d) ==
    LET ks == SortedKeys(d, NameOrder)
    IN  <<Punct("{")>>
        \o Concat([k \in 1..Len(ks) |-> <<Key(ks[k])>> \o JsonValue(d[ks[k]])])
        \o <<Punct("}")>>

\* One step record: its keys sorted are name, outputs, stage.
JsonStep(r) ==
    <<Punct("{"), Key("name"), JStr(r.name), Key("outputs")>>
    \o JsonOutputs(r.outputs)
    \o <<Key("stage"), JStr(r.stage), Punct("}")>>

\* The keys of feedback in sorted order.
FeedbackKeyOrder == <<"error", "error_stack", "steps">>

JsonFeedbackValue(fb, k) ==
    CASE k = "error" -> <<JStr(fb[k])>>
      [] k = "error_stack" ->
             <<Punct("[")>> \o [j \in 1..Len(fb[k]) |-> JStr(fb[k][j].fn)]
             \o <<Punct("]")>>
      [] OTHER ->
             <<Punct("[")>> \o Concat([j \in 1..Len(fb[k]) |-> JsonStep(fb[k][j])])
             \o <<Punct("]")>>

\* The chunks json's encoder yields for feedback with indent=2 and
\* sort_keys=True, up to and including the place where it raises, if any.
JsonChunks(fb) ==
    LET ks == SortedKeys(fb, FeedbackKeyOrder)
        all == <<Punct("{")>>
               \o Concat([k \in 1..Len(ks) |-> <<Key(ks[k])>> \o JsonFeedbackValue(fb, ks[k])])
               \o <<Punct("}")>>
        bad == {k \in 1..Len(all) : all[k] = NotSerializable}
    IN  IF bad = {} THEN all
        ELSE SubSeq(all, 1, CHOOSE k \in bad : \A l \in bad : k <= l)

Serializes(fb) == NotSerializable \notin Range(JsonChunks(fb))

\* The chunks written before the encoder raised, or all of them.
ChunksWritten(fb) ==
    IF Serializes(fb) THEN JsonChunks(fb)
    ELSE SubSeq(JsonChunks(fb), 1, Len(JsonChunks(fb)) - 1)

\* Mutant: the file is opened "a" and the chunks are added to what it holds.
DumpToFileAppend(fb) ==
    [exists |-> TRUE, content |-> file.content \o ChunksWritten(fb)]

\* json.dump(feedback, f, indent=2, sort_keys=True) on the file opened "w":
\* the chunks are written as the encoder yields them.
DumpToFile(fb) == [exists |-> TRUE, content |-> ChunksWritten(fb)]

FeedbackLine == <<[t |-> "line", v |-> "Feedback:"]>>

\* Mutant: the introductory line is not printed.
PrintFeedbackNoHeader(out, fb) ==
    out \o (IF Serializes(fb) THEN JsonChunks(fb) ELSE <<>>)

\* print("Feedback:"); print(json.dumps(feedback, indent=2, sort_keys=True)):
\* dumps returns the whole text or raises.
PrintFeedback(out, fb) ==
    out \o FeedbackLine \o (IF Serializes(fb) THEN JsonChunks(fb) ELSE <<>>)

\* Whether the caller gave a place to write the feedback to.
HasFeedbackFile == feedback_filename # "None"

\* if feedback_filename: json.dump to the file, else: the two prints.
WriteOut ==
    /\ IF HasFeedbackFile
       THEN /\ file' = DumpToFile(feedback)
            /\ stdout' = stdout
       ELSE /\ stdout' = PrintFeedback(stdout, feedback)
            /\ file' = file
    /\ emitted' = IF Serializes(feedback) THEN emitted + 1 ELSE emitted
    /\ exc' = IF Serializes(feedback) THEN exc
              ELSE Fault("TypeError", <<"process_projectfile", "json">>)

\* Mutant: the document is written after the try statement instead of in
\* its finally block, so an exception that is not caught skips it.
EmitAfterTry ==
    /\ pc = "emit"
    /\ IF exc.kind = "none" THEN WriteOut ELSE UNCHANGED << file, stdout, emitted, exc >>
    /\ pc' = IF exc'.kind = "none" THEN "returned" ELSE "raised"
    /\ UNCHANGED << inputs, i, arg_values, stage, outputs, args, result,
                    feedback, calls, caught >>

\* The end of the finally block: the document is written or printed, then
\* the function returns or the exception in flight goes on to the caller.
Emit ==
    /\ pc = "emit"
    /\ WriteOut
    /\ pc' = IF exc'.kind = "none" THEN "returned" ELSE "raised"
    /\ UNCHANGED << inputs, i, arg_values, stage, outputs, args, result,
                    feedback, calls, caught >>

\* ---------------------------------------------------------- specification

Next ==
    \/ Construct
    \/ EnterStep
    \/ Invoke
    \/ Bind
    \/ LoopEnd
    \/ Handle
    \/ Finally
    \/ Emit

Spec == Init /\ [][Next]_vars

Done == pc \in {"returned", "raised"}

\* process_projectfile as the file has it: its own four steps, called
\* from another module or by the script at the end of the file, which
\* gives no feedback path.
InitConcrete ==
    /\ steps = ConcreteSteps
    /\ as_main \in BOOLEAN
    /\ feedback_filename \in (IF as_main THEN {"None"} ELSE {"None", "feedback.json"})
    /\ Entered

NextConcrete ==
    \/ Construct
    \/ EnterStep
    \/ InvokeConcrete
    \/ Bind
    \/ LoopEnd
    \/ Handle
    \/ Finally
    \/ Emit

SpecConcrete == InitConcrete /\ [][NextConcrete]_vars

\* process_projectfile is called a second time with the same arguments:
\* everything it builds is built anew, the file the first call wrote is
\* still there, and what the first call did is kept for comparison.
Rerun ==
    /\ Done
    /\ Len(stage) = N
    /\ ~prev.ran
    /\ prev' = [ran |-> TRUE, calls |-> calls, file |-> file, stdout |-> stdout]
    /\ pc' = "construct"
    /\ i' = 0
    /\ arg_values' = EmptyMap
    /\ stage' = <<>>
    /\ outputs' = <<>>
    /\ args' = <<>>
    /\ result' = PyNone
    /\ exc' = NoExc
    /\ feedback' = EmptyMap
    /\ stdout' = <<>>
    /\ calls' = <<>>
    /\ caught' = 0
    /\ emitted' = 0
    /\ UNCHANGED << steps, feedback_filename, as_main, render, file >>

\* The pipelines that are run twice keep the catalogue's order.
InitTwice ==
    /\ steps \in OrderedPipelines
    /\ feedback_filename \in {"None", "feedback.json"}
    /\ as_main = FALSE
    /\ Entered

NextTwice ==
    \/ Next
    \/ Rerun

\* Two runs of the same call, one after the other, with methods that are
\* functions of their arguments.
SpecTwice == InitTwice /\ [][NextTwice]_vars

\* ------------------------------------------------- reading a document back

\* The steps list was built: the run got as far as the try block.
Constructed == Len(stage) = N

\* The document the run emitted, read from the sink it went to.
EmittedDoc ==
    IF HasFeedbackFile THEN file.content ELSE SubSeq(stdout, 2, Len(stdout))

\* The places of key in a document, in order.
KeyPlaces(doc, key) ==
    LET ks == {k \in 1..Len(doc) : doc[k] = Key(key)}
    IN  [j \in 1..Cardinality(ks) |->
            CHOOSE k \in ks : Cardinality({l \in ks : l <= k}) = j]

\* The text of the tokens that follow key, one per occurrence of key.
ValuesOf(doc, key) ==
    LET at == KeyPlaces(doc, key) IN [j \in 1..Len(at) |-> doc[at[j] + 1].v]

DocNames(doc) == ValuesOf(doc, "name")
DocStages(doc) == ValuesOf(doc, "stage")
DocHasKey(doc, key) == Key(key) \in Range(doc)

DeclaredNames == [k \in 1..N |-> steps[k].name]

\* The document carries a non-empty "error" string and a non-empty
\* "error_stack" list.
DocHasError(doc) ==
    /\ Len(KeyPlaces(doc, "error")) = 1
    /\ doc[KeyPlaces(doc, "error")[1] + 1].t = "string"
    /\ doc[KeyPlaces(doc, "error")[1] + 1].v # ""
    /\ Len(KeyPlaces(doc, "error_stack")) = 1
    /\ doc[KeyPlaces(doc, "error_stack")[1] + 1] = Punct("[")
    /\ doc[KeyPlaces(doc, "error_stack")[1] + 2].t = "string"

\* Step k's method was invoked and had an outcome of this kind, and every
\* method invoked before it returned.
MethodOutcomeAt(k, kind) ==
    \E c \in 1..Len(calls) :
        /\ calls[c].step = k
        /\ calls[c].out.kind = kind
        /\ \A d \in 1..(c - 1) : calls[d].out.kind = "return"

\* --------------------------------------------------------------- claims

\* C1: when step k raises a domain error and no earlier step failed, the
\* emitted feedback lists all N steps in declared order, steps 1..k-1 at
\* SUCCEEDED, step k not at SUCCEEDED, steps k+1..N at NOT_STARTED, with a
\* non-empty "error" string and a non-empty "error_stack" list.
C1_DomainFailureFeedback ==
    Done =>
        \A k \in 1..N :
            MethodOutcomeAt(k, "domain") =>
                /\ emitted = 1
                /\ DocNames(EmittedDoc) = DeclaredNames
                /\ Len(DocStages(EmittedDoc)) = N
                /\ \A j \in 1..N :
                      /\ j < k => DocStages(EmittedDoc)[j] = "SUCCEEDED"
                      /\ j = k => DocStages(EmittedDoc)[j] # "SUCCEEDED"
                      /\ j > k => DocStages(EmittedDoc)[j] = "NOT_STARTED"
                /\ DocHasError(EmittedDoc)

\* A run of three steps whose second step raised a domain error has ended.
C1_Witness ==
    /\ Done
    /\ N = 3
    /\ MethodOutcomeAt(2, "domain")
    /\ emitted = 1

\* No step failed: every method was invoked and returned, and the loop ran
\* to its end.
NoStepFailed ==
    /\ Constructed
    /\ i > N
    /\ Len(calls) = N
    /\ \A c \in 1..Len(calls) : calls[c].out.kind = "return"

\* C2: when no step fails, the emitted feedback has exactly one record per
\* declared step, in declared order, every stage is SUCCEEDED, and the
\* document has no "error" and no "error_stack" key.
C2_SuccessFeedback ==
    (Done /\ NoStepFailed) =>
        /\ emitted = 1
        /\ DocNames(EmittedDoc) = DeclaredNames
        /\ DocStages(EmittedDoc) = [k \in 1..N |-> "SUCCEEDED"]
        /\ ~DocHasKey(EmittedDoc, "error")
        /\ ~DocHasKey(EmittedDoc, "error_stack")

\* A run of three steps, none of which failed, has ended.
C2_Witness ==
    /\ Done
    /\ N = 3
    /\ NoStepFailed
    /\ emitted = 1

\* C3: a run emits no document before it ends and exactly one by the time
\* it ends, on every way out of the try block (all steps succeeded, a step
\* raised a domain error, a step raised something else), and the document
\* lists every declared step in declared order.
C3_OneDocument ==
    /\ emitted <= 1
    /\ pc \in {"construct", "loop", "call", "bind", "unwind", "finally", "emit"}
          => emitted = 0
    /\ (Done /\ Constructed) =>
          /\ emitted = 1
          /\ DocNames(EmittedDoc) = DeclaredNames

\* A run whose second of three steps raised something that is no domain
\* error has ended with its document emitted.
C3_Witness ==
    /\ pc = "raised"
    /\ N = 3
    /\ MethodOutcomeAt(2, "fault")
    /\ emitted = 1

\* C4: once a method has raised a domain error no method is invoked after
\* it, no step's method is invoked twice, the except clause runs at most
\* once, and the ended run's document holds the error exactly once.
C4_AbortOnDomainError ==
    /\ \A c \in 1..Len(calls) : calls[c].out.kind = "domain" => c = Len(calls)
    /\ \A c, d \in 1..Len(calls) : c < d => calls[c].step < calls[d].step
    /\ caught <= 1
    /\ \A k \in 1..N :
          (Done /\ MethodOutcomeAt(k, "domain")) =>
              /\ caught = 1
              /\ Len(KeyPlaces(EmittedDoc, "error")) = 1
              /\ Len(KeyPlaces(EmittedDoc, "error_stack")) = 1
              /\ \A j \in (k + 1)..N : stage[j] = "NOT_STARTED"

\* The first of three steps raised a domain error and the run has ended
\* with one method invocation.
C4_Witness ==
    /\ Done
    /\ N = 3
    /\ MethodOutcomeAt(1, "domain")
    /\ Len(calls) = 1
    /\ caught = 1

\* The value step a's method returned for return name x: the whole result
\* when the step has one return name, else the item at x's position.
ReturnedFor(a, x) ==
    LET st == steps[a]
        rv == (CHOOSE c \in Range(calls) : c.step = a).out.val
    IN  IF Len(st.return_names) = 1 THEN rv
        ELSE S(rv.items[CHOOSE p \in 1..Len(st.return_names) : st.return_names[p] = x])

\* The steps before k that completed and have x among their public returns.
Publishers(k, x) ==
    {a \in 1..(k - 1) : stage[a] = "SUCCEEDED" /\ x \in Range(steps[a].public_returns)}

\* What the propagation law says step k receives for input name x.
Propagated(k, x) ==
    IF Publishers(k, x) = {}
    THEN InitialArgs[x]
    ELSE ReturnedFor(CHOOSE a \in Publishers(k, x) : \A b \in Publishers(k, x) : b <= a, x)

\* C5: every method is invoked with, for each declared input name, the
\* value most recently written under that name by an earlier successful
\* step's public returns, or the seeded value if there is none.
C5_PropagationLaw ==
    \A c \in 1..Len(calls) :
        LET k == calls[c].step
        IN  /\ Len(calls[c].args) = Len(steps[k].arg_names)
            /\ \A p \in 1..Len(steps[k].arg_names) :
                  calls[c].args[p] = Propagated(k, steps[k].arg_names[p])

\* A step was invoked with a value for "project" that an intervening step
\* wrote over the different value an earlier step had published.
C5_Witness ==
    \E c \in 1..Len(calls) :
        /\ calls[c].step = 3
        /\ steps[3].arg_names = <<"project">>
        /\ Publishers(3, "project") = {1, 2}
        /\ ReturnedFor(1, "project") # ReturnedFor(2, "project")
        /\ calls[c].args[1] = ReturnedFor(2, "project")

\* C7: when a method raises something outside the domain-error family, the
\* run ends with that same exception going to the caller, the feedback and
\* the emitted document have no "error" and no "error_stack" key, the
\* raising step is at STARTED and every later step at NOT_STARTED.
C7_FaultPropagates ==
    \A k \in 1..N :
        (Done /\ MethodOutcomeAt(k, "fault")) =>
            /\ pc = "raised"
            /\ exc = Fault(calls[Len(calls)].out.cls,
                           <<"process_projectfile", steps[k].name>>)
            /\ caught = 0
            /\ DOMAIN feedback = {"steps"}
            /\ ~DocHasKey(EmittedDoc, "error")
            /\ ~DocHasKey(EmittedDoc, "error_stack")
            /\ DocStages(EmittedDoc)[k] = "STARTED"
            /\ \A j \in (k + 1)..N : DocStages(EmittedDoc)[j] = "NOT_STARTED"

\* The second of three steps raised a RuntimeError and the run has ended.
C7_Witness ==
    /\ Done
    /\ N = 3
    /\ MethodOutcomeAt(2, "fault")
    /\ exc.cls = "RuntimeError"

\* The keys of a document's top level come in sorted order.
TopKeysSorted(doc) ==
    /\ doc[1] = Punct("{")
    /\ DocHasKey(doc, "error") =>
          KeyPlaces(doc, "error")[1] < KeyPlaces(doc, "error_stack")[1]
    /\ DocHasKey(doc, "error_stack") =>
          KeyPlaces(doc, "error_stack")[1] < KeyPlaces(doc, "steps")[1]
    /\ \A j \in 1..Len(KeyPlaces(doc, "name")) :
          /\ KeyPlaces(doc, "steps")[1] < KeyPlaces(doc, "name")[j]
          /\ KeyPlaces(doc, "name")[j] < KeyPlaces(doc, "outputs")[j]
          /\ KeyPlaces(doc, "outputs")[j] < KeyPlaces(doc, "stage")[j]

\* C8: with a feedback path nothing is ever printed and the ended run has
\* written the document to the file; without one no file is ever written
\* and the ended run has printed the line "Feedback:" and, right after it,
\* the document with its keys sorted.
C8_OneSink ==
    /\ HasFeedbackFile =>
          /\ stdout = <<>>
          /\ (Done /\ Constructed) =>
                /\ file.exists
                /\ file.content = JsonChunks(feedback)
                /\ TopKeysSorted(file.content)
    /\ ~HasFeedbackFile =>
          /\ ~file.exists
          /\ (Done /\ Constructed) =>
                /\ SubSeq(stdout, 1, 1) = FeedbackLine
                /\ SubSeq(stdout, 2, Len(stdout)) = JsonChunks(feedback)
                /\ TopKeysSorted(SubSeq(stdout, 2, Len(stdout)))

\* A run without a feedback path has ended after a domain error, with the
\* line and the document on standard output.
C8_Witness ==
    /\ Done
    /\ ~HasFeedbackFile
    /\ caught = 1
    /\ Len(stdout) > 1
    /\ stdout[1].v = "Feedback:"

\* The document the earlier run emitted.
PrevDoc ==
    IF HasFeedbackFile THEN prev.file.content
    ELSE SubSeq(prev.stdout, 2, Len(prev.stdout))

\* C9: a second run of the same pipeline on the same initial arguments,
\* with methods that do again what they did for the same arguments, ends
\* with the same serialized document in the same sink as the first run.
C9_Determinism ==
    (prev.ran /\ Done) =>
        /\ EmittedDoc = PrevDoc
        /\ stdout = prev.stdout
        /\ file = prev.file

\* The second run has ended, and both runs aborted on a domain error
\* raised by the second of three steps.
C9_Witness ==
    /\ prev.ran
    /\ Done
    /\ N = 3
    /\ MethodOutcomeAt(2, "domain")
    /\ Len(prev.calls) = 2
    /\ Len(EmittedDoc) > 0

\* The second run has ended, and in both runs no step failed.
C9_WitnessSuccess ==
    /\ prev.ran
    /\ Done
    /\ N = 3
    /\ NoStepFailed
    /\ Len(prev.calls) = 3

\* Some declared step's output_names or public_returns are not all among
\* its return_names.
Malformed ==
    \E k \in 1..N :
        \/ \E x \in Range(steps[k].output_names) : x \notin Range(steps[k].return_names)
        \/ \E x \in Range(steps[k].public_returns) : x \notin Range(steps[k].return_names)

\* C10: a pipeline with such a descriptor never gets past construction: no
\* step is started, no method is invoked, and the only exception there is
\* is the one the constructor raised.
C10_RejectedAtConstruction ==
    Malformed =>
        /\ pc \in {"construct", "raised"}
        /\ calls = <<>>
        /\ stage = <<>>
        /\ emitted = 0
        /\ pc = "raised" => exc = Fault("ValueError", <<"process_projectfile", "Step">>)

\* A pipeline whose third descriptor alone is malformed has been rejected.
C10_Witness ==
    /\ pc = "raised"
    /\ N = 3
    /\ StepWellFormed(steps[1])
    /\ StepWellFormed(steps[2])
    /\ steps[3].name = "Bad Output"
    /\ Malformed

\* A method of the run detected one of its failure conditions.
FailureDetected == \E c \in 1..Len(calls) : calls[c].out.cond # ""

\* C6: in the pipeline of the file every failure condition a step detects
\* ends the run with a document holding a non-empty "error" and
\* "error_stack", and nothing but domain errors, which are caught, ever
\* leaves process_projectfile.
C6_FailuresAreDomainErrors ==
    Done =>
        /\ pc = "returned"
        /\ FailureDetected =>
              /\ calls[Len(calls)].out.kind = "domain"
              /\ DocHasError(EmittedDoc)

\* Called from another module, generate_thumbnail found no thumbnail file
\* after rendering; the run has ended with a NameError going to the caller,
\* the step at STARTED and no "error" in the document.
C6_Witness ==
    /\ pc = "raised"
    /\ ~as_main
    /\ calls[Len(calls)].step = 4
    /\ calls[Len(calls)].out.cond = "thumbnail file absent"
    /\ exc.cls = "NameError"
    /\ stage[4] = "STARTED"
    /\ emitted = 1
    /\ ~DocHasKey(EmittedDoc, "error")

\* C11: the stages always form a prefix pattern: some SUCCEEDED steps,
\* then at most one STARTED step, then NOT_STARTED steps only; so no step
\* is STARTED while an earlier one is not SUCCEEDED, and no two are STARTED.
C11_StagePrefix ==
    Constructed =>
        \E m \in 0..N :
            /\ \A j \in 1..m : stage[j] = "SUCCEEDED"
            /\ m < N => stage[m + 1] \in {"STARTED", "NOT_STARTED"}
            /\ \A j \in (m + 2)..N : stage[j] = "NOT_STARTED"

\* The second of three steps is being invoked after the first succeeded.
C11_Witness ==
    /\ pc = "call"
    /\ N = 3
    /\ stage = <<"SUCCEEDED", "STARTED", "NOT_STARTED">>

\* The ways the stage of step k may differ after one step of the run.
StageStep(k) ==
    \/ stage'[k] = stage[k]
    \/ /\ stage[k] = "NOT_STARTED"
       /\ stage'[k] = "STARTED"
       /\ k = i
       /\ pc = "loop"
       /\ pc' \in {"call", "unwind"}
    \/ /\ stage[k] = "STARTED"
       /\ stage'[k] = "SUCCEEDED"
       /\ k = i
       /\ pc = "bind"
       /\ calls[Len(calls)].step = k
       /\ calls[Len(calls)].out.kind = "return"
       /\ DOMAIN outputs'[k] = Range(steps[k].output_names)
       /\ Range(steps[k].public_returns) \subseteq DOMAIN arg_values'

\* The step being invoked, bound or unwound is STARTED.
StartedWhileRunning ==
    (Constructed /\ pc \in {"call", "bind", "unwind"}) => stage[i] = "STARTED"

\* C12: a stage only moves NOT_STARTED -> STARTED -> SUCCEEDED. It is
\* STARTED before the callable is invoked, becomes SUCCEEDED only after the
\* callable returned and its outputs and public returns were distributed,
\* stays STARTED when the step exits with an exception, and never moves
\* backward or from NOT_STARTED straight to SUCCEEDED.
C12_StageForwardOnly ==
    /\ []StartedWhileRunning
    /\ [][(Constructed /\ Len(stage') = N) => \A k \in 1..N : StageStep(k)]_vars

\* One step succeeded with its output recorded and the next one was left
\* STARTED by an exception.
C12_Witness ==
    /\ pc = "unwind"
    /\ i = 2
    /\ stage[1] = "SUCCEEDED"
    /\ outputs[1] # EmptyMap
    /\ stage[2] = "STARTED"

\* The last invoked callable raised (a domain error or any other).
CallableRaised ==
    /\ calls # <<>>
    /\ calls[Len(calls)].out.kind \in {"domain", "fault"}

\* Whether the j-th step record of a document has an empty outputs mapping.
DocOutputsEmpty(doc, j) ==
    /\ doc[KeyPlaces(doc, "outputs")[j] + 1] = Punct("{")
    /\ doc[KeyPlaces(doc, "outputs")[j] + 2] = Punct("}")

\* The states once the callable of the step has raised.
RaisedStepRecordsNothing ==
    (Constructed /\ CallableRaised) =>
        /\ outputs[calls[Len(calls)].step] = EmptyMap
        /\ \A j \in 1..N : stage[j] # "SUCCEEDED" => outputs[j] = EmptyMap
        /\ (Done /\ emitted = 1) =>
              \A j \in 1..N :
                  DocStages(EmittedDoc)[j] # "SUCCEEDED" => DocOutputsEmpty(EmittedDoc, j)

\* C13: a step whose callable raises, a domain error or not, leaves the
\* argument registry as it was before the step started and records no
\* outputs: from the start of the step on, through the raise and up to the
\* end of the run, the registry and the recorded outputs do not change, and
\* in the emitted feedback every step that is not SUCCEEDED has an empty
\* outputs mapping.
C13_RaisingStepFrame ==
    /\ []RaisedStepRecordsNothing
    /\ [][(\/ pc = "loop"
           \/ pc = "call" /\ pc' = "unwind"
           \/ CallableRaised)
          => (arg_values' = arg_values /\ outputs' = outputs)]_vars

\* The third step's callable raised after the second had recorded an
\* output and changed the registry; the run has ended.
C13_Witness ==
    /\ Done
    /\ emitted = 1
    /\ CallableRaised
    /\ calls[Len(calls)].step = 3
    /\ outputs[2] # EmptyMap
    /\ arg_values # InitialArgs

\* ------------------------------------- callables outside their contract

\* A descriptor with two public returns, the first of them an output too.
SplitStep ==
    Step("Split", <<"project_filename">>, <<"project", "layers_summary">>,
         <<"project">>, <<"project", "layers_summary">>)

\* The descriptors run with callables that return any Python object.
AnySteps == << ConcreteSteps[2], ConcreteSteps[3], ExtraSteps[1], SplitStep >>

\* The order-preserving selections of 1..MaxSteps of these descriptors.
AnyPipelines ==
    UNION { { [k \in 1..n |-> AnySteps[f[k]]] :
                f \in { g \in [1..n -> 1..Len(AnySteps)] :
                           \A a, b \in 1..n : a < b => g[a] < g[b] } } :
            n \in 1..MaxSteps }

\* An object json cannot encode, alone or inside a tuple.
UnserializableChoices(st) ==
    IF Len(st.return_names) = 1 THEN { S("obj") } ELSE { T(<<"a", "obj">>) }

\* return_values = step.method(*args), the method returning an object
\* that json cannot encode.
InvokeUnserializable ==
    /\ pc = "call"
    /\ Len(steps[i].return_names) > 0
    /\ \E v \in UnserializableChoices(steps[i]) : Invoked(Returned(v))

InitAny ==
    /\ steps \in AnyPipelines
    /\ feedback_filename \in {"None", "feedback.json"}
    /\ as_main = FALSE
    /\ Entered

NextAny ==
    \/ Construct
    \/ EnterStep
    \/ Invoke
    \/ InvokeUnserializable
    \/ Bind
    \/ LoopEnd
    \/ Handle
    \/ Finally
    \/ Emit

SpecAny == InitAny /\ [][NextAny]_vars

\* The names whose registry entry this step adds or changes.
RegistryChanges ==
    { n \in DOMAIN arg_values' : n \notin DOMAIN arg_values \/ arg_values'[n] # arg_values[n] }

\* The names some declared step lists in its public returns.
PublicNames == UNION { Range(steps[k].public_returns) : k \in 1..N }

\* C14: the argument registry is append/overwrite-only across a run: its
\* set of names never shrinks, an entry changes only when a step that lists
\* the name in its public returns completes successfully, and a return
\* name that is only an output never enters the registry.
C14_RegistryAppendOnly ==
    /\ [](Constructed => DOMAIN arg_values \subseteq (DOMAIN InitialArgs \cup PublicNames))
    /\ [][(Constructed /\ Len(stage') = N) =>
            /\ DOMAIN arg_values \subseteq DOMAIN arg_values'
            /\ \A n \in RegistryChanges :
                  /\ n \in Range(steps[i].public_returns)
                  /\ stage[i] = "STARTED"
                  /\ stage'[i] = "SUCCEEDED"]_vars

\* Binding raised after the first of the step's two public returns was
\* written to the registry: the step is left STARTED, the entry stays.
C14_Witness ==
    /\ pc = "unwind"
    /\ steps[i].name = "Split"
    /\ stage[i] = "STARTED"
    /\ "project" \in DOMAIN arg_values
    /\ "layers_summary" \notin DOMAIN arg_values

\* The number of values a result decomposes into; -1 when it does not.
ValueCount(v) == IF v.tup THEN Len(v.items) ELSE -1

\* The step that binds the returned result binds it as the contract says.
BoundByContract ==
    LET st == steps[i]
        n == Len(st.return_names)
        rejected == /\ stage'[i] # "SUCCEEDED"
                    /\ outputs' = outputs
                    /\ arg_values' = arg_values
    IN  CASE n = 0 -> stage'[i] = "SUCCEEDED"
          [] n = 1 ->
                /\ stage'[i] = "SUCCEEDED"
                /\ \A m \in Range(st.output_names) : outputs'[i][m] = result
                /\ \A m \in Range(st.public_returns) : arg_values'[m] = result
          [] OTHER ->
                IF ValueCount(result) = n
                THEN /\ stage'[i] = "SUCCEEDED"
                     /\ \A k \in 1..n :
                           /\ st.return_names[k] \in Range(st.output_names)
                                 => outputs'[i][st.return_names[k]] = S(result.items[k])
                           /\ st.return_names[k] \in Range(st.public_returns)
                                 => arg_values'[st.return_names[k]] = S(result.items[k])
                ELSE rejected

\* C15: with one return name the result is bound whole to that name; with
\* n > 1 return names a result of exactly n values is bound positionally,
\* and a result with any other number of values is a contract violation:
\* the step does not reach SUCCEEDED and none of its values is recorded or
\* promoted.
C15_ReturnBinding == [][pc = "bind" => BoundByContract]_vars

\* A step with two return names reached SUCCEEDED on a result of three
\* values.
C15_Witness ==
    /\ pc = "loop"
    /\ i > 1
    /\ stage[i - 1] = "SUCCEEDED"
    /\ Len(steps[i - 1].return_names) = 2
    /\ calls[Len(calls)].step = i - 1
    /\ ValueCount(calls[Len(calls)].out.val) = 3

\* What the chosen sink holds of the feedback document.
SinkContent == IF HasFeedbackFile THEN file.content ELSE SubSeq(stdout, 2, Len(stdout))

\* C16: no partial document is ever emitted: the chosen sink, the file at
\* the feedback path or standard output, holds the complete serialized
\* feedback document or nothing of it, also when serializing fails
\* part-way.
C16_NoPartialDocument ==
    \/ SinkContent = <<>>
    \/ /\ Serializes(feedback)
       /\ SinkContent = JsonChunks(feedback)

\* The run ended in the encoder's TypeError and the file at the feedback
\* path holds the beginning of the document.
C16_Witness ==
    /\ pc = "raised"
    /\ exc.cls = "TypeError"
    /\ emitted = 0
    /\ file.exists
    /\ file.content # <<>>
    /\ ~Serializes(feedback)

\* The executor's lookup of a declared input name failed.
MissingNameFault ==
    /\ exc.kind = "fault"
    /\ exc.cls = "KeyError"
    /\ exc.tb = <<"process_projectfile">>

\* C17: in the file's four-step pipeline every declared input name is in
\* the registry when its step is reached: project_filename and
\* thumbnail_filename are seeded, project is written by Opening Check
\* before Layer Validity Check and Generate Thumbnail Image read it; the
\* missing-name fault does not occur.
C17_InputsResolvable ==
    /\ (pc = "loop" /\ i <= N) => Range(steps[i].arg_names) \subseteq DOMAIN arg_values
    /\ pc = "call" => args = [k \in 1..Len(steps[i].arg_names) |-> arg_values[steps[i].arg_names[k]]]
    /\ ~MissingNameFault

\* Generate Thumbnail Image is invoked with the project Opening Check
\* loaded and the seeded thumbnail path.
C17_Witness ==
    /\ pc = "call"
    /\ steps[i].name = "Generate Thumbnail Image"
    /\ args = <<S("QgsProject"), S("thumbnail.png")>>

\* ------------------------------------------------ callables that block

\* The outcome logged for a call that never comes back.
NeverReturns == [kind |-> "hang", val |-> PyNone, cls |-> "", cond |-> ""]

\* Mutant: the executor gives up on a blocked call and raises a timeout.
HangTimesOut ==
    /\ pc = "call"
    /\ calls' = Append(calls, [step |-> i, args |-> args, out |-> NeverReturns])
    /\ pc' = "unwind"
    /\ exc' = Fault("TimeoutError", <<"process_projectfile">>)
    /\ UNCHANGED << inputs, i, arg_values, stage, outputs, args, result,
                    feedback, file, stdout, caught, emitted >>

\* return_values = step.method(*args) with a method that never returns:
\* process_projectfile stays inside the call.
Hang ==
    /\ pc = "call"
    /\ calls' = Append(calls, [step |-> i, args |-> args, out |-> NeverReturns])
    /\ pc' = "hung"
    /\ UNCHANGED << inputs, i, arg_values, stage, outputs, args, result, exc,
                    feedback, file, stdout, caught, emitted >>

\* One run of a pipeline that keeps the catalogue's order.
InitLive == InitTwice

NextLive ==
    \/ Construct
    \/ EnterStep
    \/ Invoke
    \/ Hang
    \/ Bind
    \/ LoopEnd
    \/ Handle
    \/ Finally
    \/ Emit

\* process_projectfile is sequential code on one thread: whenever it has a
\* next statement to run, it runs it, and a call that does not block
\* comes back. The last conjunct is WF_vars(Emit) written out, Emit being
\* enabled exactly when pc = "emit".
Fairness ==
    /\ WF_vars(Construct)
    /\ WF_vars(EnterStep)
    /\ WF_vars(Invoke)
    /\ WF_vars(Bind)
    /\ WF_vars(LoopEnd)
    /\ WF_vars(Handle)
    /\ WF_vars(Finally)
    /\ ([]<>(pc # "emit") \/ []<><<Emit>>_vars)

SpecLive == InitLive /\ [][NextLive]_vars /\ Fairness

\* Some invoked callable never returns.
Hung == calls # <<>> /\ calls[Len(calls)].out.kind = "hang"

\* The run is stuck in the call of step i.
Stalled ==
    /\ ~Done
    /\ emitted = 0
    /\ file = NoFile
    /\ stdout = <<>>
    /\ calls[Len(calls)].step = i
    /\ \A j \in 1..N : stage[j] = (CASE j < i -> "SUCCEEDED"
                                      [] j = i -> "STARTED"
                                      [] OTHER -> "NOT_STARTED")

\* C18: if every invoked callable eventually returns or raises, the run
\* eventually finishes and the feedback document has been emitted; if some
\* callable never returns, the run never advances past that step, which
\* stays STARTED, and no feedback document is ever emitted.
C18_Termination ==
    /\ ([]~Hung) => <>(Done /\ (Constructed => emitted = 1))
    /\ [](Hung => Stalled)
    /\ [][Hung => UNCHANGED vars]_vars

\* The second of three callables never returns.
C18_Witness ==
    /\ Hung
    /\ N = 3
    /\ i = 2
    /\ stage = <<"SUCCEEDED", "STARTED", "NOT_STARTED">>
    /\ emitted = 0

\* ------------------------------------- the inside of generate_thumbnail

\* Everything generate_thumbnail's own statements leave alone.
executor == << steps, feedback_filename, prev, as_main, i, arg_values, stage,
               outputs, args, result, exc, feedback, file, stdout, calls,
               caught, emitted >>

AtThumbnail(at) == pc = "thumbnail" /\ render.at = at

\* The first three methods of the file's pipeline.
InvokeBeforeThumbnail ==
    /\ pc = "call"
    /\ steps[i].name # "Generate Thumbnail Image"
    /\ InvokeConcrete

\* generate_thumbnail up to render = QgsMapRendererParallelJob(settings):
\* setContent's error is raised, or the job is created; a file is at the
\* thumbnail path beforehand or not.
ThumbnailSetup ==
    /\ pc = "call"
    /\ steps[i].name = "Generate Thumbnail Image"
    /\ \E file_opens, content_error, existed \in BOOLEAN :
          IF file_opens /\ content_error
          THEN Invoked(RaiseWithGlobal("InvalidXmlFileException",
                                       {"project_filename", "error"}, "invalid XML"))
          ELSE /\ pc' = "thumbnail"
               /\ render' = [NoRender EXCEPT !.at = "created", !.existed = existed,
                                             !.exists = existed]
               /\ UNCHANGED executor

\* signal.connect(slot): slots are called in the order they were connected.
Connect(slots, slot) == Append(slots, slot)

\* render.finished.connect(finished)
ConnectFinished ==
    /\ AtThumbnail("created")
    /\ render' = [render EXCEPT !.at = "connected",
                                !.slots = Connect(@, "finished")]
    /\ pc' = pc
    /\ UNCHANGED executor

\* render.start(): the job renders on worker threads.
RenderStart ==
    /\ AtThumbnail("connected")
    /\ render' = [render EXCEPT !.at = "started", !.job = "running"]
    /\ pc' = pc
    /\ UNCHANGED executor

\* loop = QEventLoop(); render.finished.connect(loop.quit)
ConnectQuit ==
    /\ AtThumbnail("started")
    /\ render' = [render EXCEPT !.at = "ready", !.slots = Connect(@, "loop.quit")]
    /\ pc' = pc
    /\ UNCHANGED executor

\* Mutant: loop.exec_() is left out.
LoopExecSkipped ==
    /\ AtThumbnail("ready")
    /\ render' = [render EXCEPT !.at = "after"]
    /\ pc' = pc
    /\ UNCHANGED executor

\* loop.exec_(): the calling thread starts to process its events.
LoopExec ==
    /\ AtThumbnail("ready")
    /\ render' = [render EXCEPT !.at = "exec"]
    /\ pc' = pc
    /\ UNCHANGED executor

\* Mutant: the completing job calls the connected slots itself, at once.
JobCompletesDirect ==
    /\ pc = "thumbnail"
    /\ render.job = "running"
    /\ render' = [render EXCEPT !.job = "done", !.done_at = render.at,
                                !.pending = render.slots]
    /\ pc' = pc
    /\ UNCHANGED executor

\* The workers started by render.start() are through: the job's finished
\* notification is posted to the thread that owns the job, at whatever
\* statement that thread is.
JobCompletes ==
    /\ pc = "thumbnail"
    /\ render.job = "running"
    /\ render' = [render EXCEPT !.job = "done", !.done_at = render.at,
                                !.posted = TRUE]
    /\ pc' = pc
    /\ UNCHANGED executor

\* Inside loop.exec_() the posted notification is processed: render emits
\* finished to the slots connected by now.
DeliverFinished ==
    /\ AtThumbnail("exec")
    /\ render.posted
    /\ render' = [render EXCEPT !.posted = FALSE, !.pending = render.slots]
    /\ pc' = pc
    /\ UNCHANGED executor

\* def finished(): render.renderedImage().save(str(thumbnail_filename)),
\* which works or not; a failure is logged and leaves the path as it was.
RunFinishedSlot ==
    /\ pc = "thumbnail"
    /\ render.pending # <<>>
    /\ Head(render.pending) = "finished"
    /\ \E save_ok \in BOOLEAN :
          render' = [render EXCEPT !.pending = Tail(@),
                                   !.ran = Append(@, "finished"),
                                   !.saved = IF save_ok THEN "ok" ELSE "failed",
                                   !.exists = @ \/ save_ok]
    /\ pc' = pc
    /\ UNCHANGED executor

\* loop.quit, called as a slot of render.finished.
RunQuitSlot ==
    /\ pc = "thumbnail"
    /\ render.pending # <<>>
    /\ Head(render.pending) = "loop.quit"
    /\ render' = [render EXCEPT !.pending = Tail(@),
                                !.ran = Append(@, "loop.quit"),
                                !.quit = TRUE]
    /\ pc' = pc
    /\ UNCHANGED executor

\* loop.exec_() returns once quit was called and the slots are through.
ExecReturns ==
    /\ AtThumbnail("exec")
    /\ render.quit
    /\ render.pending = <<>>
    /\ render' = [render EXCEPT !.at = "after"]
    /\ pc' = pc
    /\ UNCHANGED executor

\* if not Path(thumbnail_filename).exists(): raise
\* FailedThumbnailGenerationException(project_filename=project_filename, ...)
CheckThumbnail ==
    /\ AtThumbnail("after")
    /\ Invoked(IF render.exists
               THEN Returned(PyNone)
               ELSE RaiseWithGlobal("FailedThumbnailGenerationException",
                                    {"project_filename", "reason"},
                                    "thumbnail file absent"))

NextThumbnail ==
    \/ Construct
    \/ EnterStep
    \/ InvokeBeforeThumbnail
    \/ ThumbnailSetup
    \/ ConnectFinished
    \/ RenderStart
    \/ ConnectQuit
    \/ LoopExec
    \/ JobCompletes
    \/ DeliverFinished
    \/ RunFinishedSlot
    \/ RunQuitSlot
    \/ ExecReturns
    \/ CheckThumbnail
    \/ Bind
    \/ LoopEnd
    \/ Handle
    \/ Finally
    \/ Emit

\* The thread inside generate_thumbnail runs its next statement, the
\* render job comes to an end, and a running event loop processes what is
\* posted to it.
FairnessThumbnail ==
    /\ WF_vars(ConnectFinished)
    /\ WF_vars(RenderStart)
    /\ WF_vars(ConnectQuit)
    /\ WF_vars(LoopExec)
    /\ WF_vars(JobCompletes)
    /\ WF_vars(DeliverFinished)
    /\ WF_vars(RunFinishedSlot)
    /\ WF_vars(RunQuitSlot)
    /\ WF_vars(ExecReturns)
    /\ WF_vars(CheckThumbnail)

SpecThumbnail == InitConcrete /\ [][NextThumbnail]_vars /\ FairnessThumbnail

\* The finished event was delivered: the save callback ran, then
\* loop.quit, and nothing else.
FinishedDelivered ==
    /\ render.job = "done"
    /\ ~render.posted
    /\ render.ran = <<"finished", "loop.quit">>
    /\ render.saved # "no"
    /\ render.quit

\* generate_thumbnail is past render.start() and has not come back.
InsideThumbnail == pc = "thumbnail"

SaveFailedAndBack == render.saved = "failed" /\ ~InsideThumbnail

\* C20: whenever saving the rendered image fails, Generate Thumbnail Image
\* does not reach SUCCEEDED: the step ends with the generation-failure
\* domain error, whether or not a file was at the thumbnail path before.
C20_SaveFailureFailsStep ==
    SaveFailedAndBack =>
        /\ \A k \in 1..N :
              steps[k].name = "Generate Thumbnail Image" => stage[k] # "SUCCEEDED"
        /\ calls[Len(calls)].out.kind = "domain"
        /\ calls[Len(calls)].out.cls = "FailedThumbnailGenerationException"

\* Run as a script, with an old file at the thumbnail path: the save
\* failed and the step is SUCCEEDED.
C20_Witness ==
    /\ as_main
    /\ render.existed
    /\ render.saved = "failed"
    /\ Done
    /\ stage[N] = "SUCCEEDED"
    /\ exc = NoExc

====
